---- MODULE Spec2Model ----
(***************************************************************************)
(* file-checksum-guard (main.go): a hook binary run once per tool call.    *)
(* "store" records the SHA-256 of a file under a name derived from the     *)
(* file's path; "verify" compares the file's current SHA-256 with the      *)
(* recorded one and exits 2 (deny) on a mismatch.                          *)
(*                                                                         *)
(* Strings that the program takes apart (paths, hex digests) are sequences *)
(* of one-character strings.  SHA-256 is a small polynomial hash modulo    *)
(* HashMod whose value stands for the 32 digest bytes; it is hex-encoded   *)
(* to two characters.                                                      *)
(*                                                                         *)
(* Spec     : invocations of main on one path run one after another (each  *)
(*            one atomic), interleaved with what the outside world does to *)
(*            the file and to the records; the other path's record, left   *)
(*            by an earlier store, is there to be disturbed.               *)
(* SpecRace : one store invocation and one verify invocation on the same   *)
(*            path run as concurrent processes, one system call per step.  *)
(***************************************************************************)
EXTENDS Integers, Sequences, FiniteSets, TLC

\* ------------------------------------------------------------------ bounds
\* modulus of the model's stand-in for SHA-256
HashMod == 32
\* a log file's line count is kept exactly up to this many lines
MaxLogLines == 1

\* ------------------------------------------------------- strings and paths
Sep == "/"
Alphabet == << "/", "a", "b", "f", "x", "y", "z", "." >>
HexDigits == << "0", "1", "2", "3", "4", "5", "6", "7",
                "8", "9", "a", "b", "c", "d", "e", "f" >>

ByteOf(c) == CHOOSE i \in 1..Len(Alphabet) : Alphabet[i] = c

\* sha256.Sum256 / sha256.New + io.Copy + h.Sum: a hash of the byte string
RECURSIVE Sum256(_)
Sum256(b) ==
  IF b = << >> THEN 7 % HashMod
  ELSE (Sum256(SubSeq(b, 1, Len(b) - 1)) * 31 + ByteOf(b[Len(b)])) % HashMod

\* hex.EncodeToString: two lower-case hex digits per byte
EncodeToString(n) == << HexDigits[((n \div 16) % 16) + 1], HexDigits[(n % 16) + 1] >>

\* filepath.Clean, for paths without "." and ".." elements: repeated
\* separators collapse, a trailing separator goes, the empty path is "."
RECURSIVE Squeeze(_)
Squeeze(p) ==
  IF Len(p) < 2 THEN p
  ELSE IF p[1] = Sep /\ p[2] = Sep THEN Squeeze(Tail(p))
  ELSE << p[1] >> \o Squeeze(Tail(p))

Clean(p) ==
  LET q == Squeeze(p) IN
  IF q = << >> THEN << "." >>
  ELSE IF Len(q) > 1 /\ q[Len(q)] = Sep THEN SubSeq(q, 1, Len(q) - 1)
  ELSE q

\* filepath.Join of two elements: empty elements are dropped, the rest are
\* joined by the separator and cleaned; all empty gives the empty string
Join(a, b) ==
  IF a = << >> /\ b = << >> THEN << >>
  ELSE IF a = << >> THEN Clean(b)
  ELSE IF b = << >> THEN Clean(a)
  ELSE Clean(a \o << Sep >> \o b)

\* filepath.Base: the last element; trailing separators are stripped first
RECURSIVE StripTrailing(_)
StripTrailing(p) ==
  IF Len(p) > 0 /\ p[Len(p)] = Sep THEN StripTrailing(SubSeq(p, 1, Len(p) - 1)) ELSE p

RECURSIVE AfterLastSep(_)
AfterLastSep(p) ==
  IF p = << >> THEN << >>
  ELSE IF p[Len(p)] = Sep THEN << >>
  ELSE AfterLastSep(SubSeq(p, 1, Len(p) - 1)) \o << p[Len(p)] >>

Base(p) ==
  IF p = << >> THEN << "." >>
  ELSE LET q == AfterLastSep(StripTrailing(p)) IN
       IF q = << >> THEN << Sep >> ELSE q

\* --------------------------------------------------------------- universe
\* the files the hook is asked about: same base name, different directories
PathA == << "/", "a", "/", "f" >>
PathB == << "/", "b", "/", "f" >>
Paths == { PathA, PathB }

\* what a file can hold; "x" and "xyy" have the same Sum256
FileContents == { << >>, << "x" >>, << "x", "y", "y" >> }

Missing == [exists |-> FALSE, readable |-> FALSE, content |-> << >>]
FileStates ==
  { Missing } \cup [exists : {TRUE}, readable : BOOLEAN, content : FileContents]

NoFile == [exists |-> FALSE, data |-> << >>]
DataFile(d) == [exists |-> TRUE, data |-> d]

checksumDir == << "/tmp/claude-file-checksums" >>

checksumKeyPath(filePath) ==
  Join(checksumDir, EncodeToString(Sum256(filePath)))

logAccessPath(filePath) == checksumKeyPath(filePath) \o << ".log" >>

KeyPaths == { checksumKeyPath(p) : p \in Paths }
LogPaths == { logAccessPath(p) : p \in Paths }

\* the hook's standard input: a read error, bytes that are no JSON object,
\* or a payload (absent fields are the empty string, as json.Unmarshal
\* leaves them)
Payload(fp, rel, cwd) ==
  [kind |-> "json", tool_name |-> "Edit", file_path |-> fp,
   relative_path |-> rel, cwd |-> cwd]
Stdins ==
  { [kind |-> "ioerr"], [kind |-> "badjson"] }
    \cup { Payload(p, << >>, << >>) : p \in Paths }
    \cup { Payload(<< >>, << "f" >>, << "/", "a", "/" >>),
           Payload(<< >>, << >>, << "/", "a" >>),
           Payload(<< >>, << >>, << >>) }

\* os.Args[1:]
ArgLists == { << >>, << "store" >>, << "verify" >>, << "check" >> }

\* what the operating system does with one os.WriteFile call
WriteOutcomes == { "ok", "openfail", "writefail" }

VARIABLES
  files,      \* path -> the file the hook guards
  dirExists,  \* checksumDir exists
  checksums,  \* key path -> the record file
  logs,       \* log path -> number of lines (MaxLogLines: that many or more)
  osArgs,     \* the last invocation: os.Args[1:]
  filePath,   \*   its resolved filePath ("" when it resolved none)
  status,     \*   compareWithStored's status ("" when not called)
  storeErr,   \*   store's error: "nil", "read", "open", "write"; "" when not called
  verifyRet,  \*   verify's return values
  exitCode,   \*   its exit code; NoExit when no process has just run
  stdout,     \*   what it printed on standard output
  stderr,     \*   what it printed on standard error
  scope,      \* the paths the invocations and the outside world work on
  hist,       \* history: store's errors in the store calls on filePath just before the last invocation
  lastStored, \* history: path -> digest written by the last store that succeeded
  stale,      \* history: path -> "fresh"/"stale" since the last store call, when that one succeeded
  rpath,      \* SpecRace: the path both processes work on
  spc, sloc,  \* SpecRace: the store process: position and locals
  vpc, vloc   \* SpecRace: the verify process: position and locals

vars == << files, dirExists, checksums, logs, osArgs, filePath, status, storeErr,
           verifyRet, exitCode, stdout, stderr, scope, hist, lastStored, stale,
           rpath, spc, sloc, vpc, vloc >>

procVars == << osArgs, filePath, status, storeErr, verifyRet, exitCode, stdout, stderr >>
raceVars == << rpath, spc, sloc, vpc, vloc >>

NoExit == 0 - 1
NotCalled == [called |-> FALSE, blocked |-> FALSE, reason |-> << >>]
NoDigest == << >>

\* ----------------------------------------------------- the program's functions
\* os.Stat(path) succeeds
StatOK(path) == files[path].exists

\* os.ReadFile(name) of a record file
ReadFile(name) ==
  IF name \in DOMAIN checksums /\ checksums[name].exists
  THEN [err |-> FALSE, data |-> checksums[name].data]
  ELSE [err |-> TRUE, data |-> << >>]

\* os.WriteFile(name, data, 0644): open with O_CREATE|O_TRUNC, write, close.
\* wr is what the operating system does: "openfail" leaves the file as it
\* was, "writefail" fails after the truncation.
\* (WriteFileAppend: the file is opened with O_APPEND and not truncated)
WriteFileAppend(name, data, wr) ==
  IF wr = "openfail"
  THEN [err |-> "open", sums |-> checksums]
  ELSE IF wr = "writefail"
  THEN [err |-> "write", sums |-> [checksums EXCEPT ![name] = DataFile(@.data)]]
  ELSE [err |-> "nil", sums |-> [checksums EXCEPT ![name] = DataFile(@.data \o data)]]

WriteFile(name, data, wr) ==
  IF wr = "openfail"
  THEN [err |-> "open", sums |-> checksums]
  ELSE IF wr = "writefail"
  THEN [err |-> "write", sums |-> [checksums EXCEPT ![name] = DataFile(<< >>)]]
  ELSE [err |-> "nil", sums |-> [checksums EXCEPT ![name] = DataFile(data)]]

fileChecksum(path) ==
  IF files[path].exists /\ files[path].readable
  THEN [err |-> FALSE, sum |-> EncodeToString(Sum256(files[path].content))]
  ELSE [err |-> TRUE, sum |-> << >>]

compareWithStored(path) ==
  LET cur == fileChecksum(path)
      stored == ReadFile(checksumKeyPath(path))
  IN IF cur.err THEN [status |-> "error", currentHash |-> << >>]
     ELSE IF stored.err THEN [status |-> "new", currentHash |-> cur.sum]
     ELSE IF stored.data = cur.sum THEN [status |-> "match", currentHash |-> cur.sum]
     ELSE [status |-> "mismatch", currentHash |-> cur.sum]

\* (storeDropsRecord: a missing file's record is removed;
\*  storeIgnoresReadError: a failed read is not reported;
\*  storeWritesLine: the digest is written with a newline after it)
storeDropsRecord(path, wr) ==
  IF ~StatOK(path)
  THEN [err |-> "nil", sums |-> [checksums EXCEPT ![checksumKeyPath(path)] = NoFile]]
  ELSE LET sum == fileChecksum(path) IN
       IF sum.err THEN [err |-> "read", sums |-> checksums]
       ELSE WriteFile(checksumKeyPath(path), sum.sum, wr)

storeIgnoresReadError(path, wr) ==
  IF ~StatOK(path) THEN [err |-> "nil", sums |-> checksums]
  ELSE LET sum == fileChecksum(path) IN
       IF sum.err THEN [err |-> "nil", sums |-> checksums]
       ELSE WriteFile(checksumKeyPath(path), sum.sum, wr)

storeWritesLine(path, wr) ==
  IF ~StatOK(path) THEN [err |-> "nil", sums |-> checksums]
  ELSE LET sum == fileChecksum(path) IN
       IF sum.err THEN [err |-> "read", sums |-> checksums]
       ELSE WriteFile(checksumKeyPath(path), sum.sum \o << "\n" >>, wr)

store(path, wr) ==
  IF ~StatOK(path) THEN [err |-> "nil", sums |-> checksums]
  ELSE LET sum == fileChecksum(path) IN
       IF sum.err THEN [err |-> "read", sums |-> checksums]
       ELSE WriteFile(checksumKeyPath(path), sum.sum, wr)

\* fmt.Sprintf("STALE FILE: %s has been modified ...", filepath.Base(filePath)):
\* the text before the verb, the characters of the argument, the text after it
\* (StaleReasonFullPath: the path itself is formatted)
StaleReasonFullPath(path) ==
  << "STALE FILE: " >> \o path \o
  << " has been modified externally since it was last read. Re-read the file before editing." >>

StaleReason(path) ==
  << "STALE FILE: " >> \o Base(path) \o
  << " has been modified externally since it was last read. Re-read the file before editing." >>

\* (verifyIgnoresReadError: a record that cannot be read counts as empty)
verifyIgnoresReadError(path) ==
  IF ~StatOK(path) THEN [called |-> TRUE, blocked |-> FALSE, reason |-> << >>]
  ELSE LET stored == ReadFile(checksumKeyPath(path))
           current == fileChecksum(path)
       IN IF current.err THEN [called |-> TRUE, blocked |-> FALSE, reason |-> << >>]
          ELSE IF stored.data # current.sum
          THEN [called |-> TRUE, blocked |-> TRUE, reason |-> StaleReason(path)]
          ELSE [called |-> TRUE, blocked |-> FALSE, reason |-> << >>]

verify(path) ==
  IF ~StatOK(path) THEN [called |-> TRUE, blocked |-> FALSE, reason |-> << >>]
  ELSE LET stored == ReadFile(checksumKeyPath(path)) IN
       IF stored.err THEN [called |-> TRUE, blocked |-> FALSE, reason |-> << >>]
       ELSE LET current == fileChecksum(path) IN
            IF current.err THEN [called |-> TRUE, blocked |-> FALSE, reason |-> << >>]
            ELSE IF stored.data # current.sum
            THEN [called |-> TRUE, blocked |-> TRUE, reason |-> StaleReason(path)]
            ELSE [called |-> TRUE, blocked |-> FALSE, reason |-> << >>]

\* logAccess: append one line to the path's log; a failure to open the log
\* is swallowed.  logOK is whether the open succeeds.
logAccess(lg, path, logOK) ==
  IF logOK
  THEN [lg EXCEPT ![logAccessPath(path)] =
          IF @ < MaxLogLines THEN @ + 1 ELSE MaxLogLines]
  ELSE lg

\* main, lines 155-158: the file path of the payload
ResolvePath(payload) ==
  IF payload.file_path = << >> /\ payload.relative_path # << >>
  THEN Join(payload.cwd, payload.relative_path)
  ELSE payload.file_path

\* the exit codes of main (ExitBlockAsError: a block exits like an error)
ExitOK == 0
ExitError == 1
ExitBlockAsError == ExitError
ExitBlock == 2
\* os.MkdirAll(checksumDir, 0755)
MkdirAll == TRUE

\* ------------------------------------------------------------------ history
Digest(path) == EncodeToString(Sum256(files[path].content))

\* the store calls on path fp that ran just before the invocation that runs
\* now (the last two of them)
PushHist(fp) ==
  IF exitCode = NoExit \/ storeErr = "" \/ filePath # fp THEN << >>
  ELSE LET h == Append(hist, storeErr) IN
       IF Len(h) > 2 THEN Tail(h) ELSE h

StoreRecorded(path, serr) == serr = "nil" /\ files[path].exists

\* ------------------------------------------------------------------- state
TypeOK ==
  /\ files \in [Paths -> FileStates]
  /\ dirExists \in BOOLEAN
  /\ DOMAIN checksums = KeyPaths
  /\ DOMAIN logs = LogPaths
  /\ \A l \in LogPaths : logs[l] \in 0..MaxLogLines
  /\ osArgs \in ArgLists
  /\ filePath \in Paths \cup { << >> }
  /\ exitCode \in { NoExit, ExitOK, ExitError, ExitBlock }

Idle ==
  /\ osArgs = << >> /\ filePath = << >> /\ status = "" /\ storeErr = ""
  /\ verifyRet = NotCalled /\ exitCode = NoExit
  /\ stdout = << >> /\ stderr = << >> /\ hist = << >>

\* the locals of the two concurrent processes before they have run
SLoc0 == [status |-> "", cur |-> << >>, sum |-> << >>, err |-> "", code |-> NoExit]
VLoc0 == [status |-> "", cur |-> << >>, stored |-> << >>, current |-> << >>,
          blocked |-> FALSE, out |-> << >>, code |-> NoExit]

RaceIdle ==
  /\ rpath = << >> /\ spc = "off" /\ vpc = "off"
  /\ sloc = SLoc0 /\ vloc = VLoc0

\* the digests a store can have recorded
Digests == { EncodeToString(Sum256(c)) : c \in FileContents }

\* One path is in play, with any file or none, and nothing recorded for it.
\* The other path's file is gone; an earlier store may have left its record.
Init ==
  /\ scope \in { { p } : p \in Paths }
  /\ files \in [Paths -> FileStates]
  /\ \A p \in Paths \ scope : files[p] = Missing
  /\ lastStored \in [Paths -> { NoDigest } \cup Digests]
  /\ \A p \in scope : lastStored[p] = NoDigest
  /\ checksums = [k \in KeyPaths |->
                    LET p == CHOOSE q \in Paths : checksumKeyPath(q) = k IN
                    IF lastStored[p] = NoDigest THEN NoFile ELSE DataFile(lastStored[p])]
  /\ dirExists = (\E k \in KeyPaths : checksums[k].exists)
  /\ logs = [l \in LogPaths |-> 0]
  /\ stale = [p \in Paths |-> "none"]
  /\ Idle
  /\ RaceIdle

\* ----------------------------------------------------------- one invocation
\* the process ends: what it leaves behind
Done(args, fp, st, serr, vret, code, out, errout, sums, lg, dir) ==
  /\ osArgs' = args
  /\ filePath' = fp
  /\ status' = st
  /\ storeErr' = serr
  /\ verifyRet' = vret
  /\ exitCode' = code
  /\ stdout' = out
  /\ stderr' = errout
  /\ checksums' = sums
  /\ logs' = lg
  /\ dirExists' = dir
  /\ hist' = PushHist(fp)
  /\ lastStored' = IF serr # "" /\ StoreRecorded(fp, serr)
                    THEN [lastStored EXCEPT ![fp] = Digest(fp)]
                    ELSE lastStored
  /\ stale' = IF serr # ""
               THEN [stale EXCEPT ![fp] =
                       IF StoreRecorded(fp, serr) /\ files[fp].readable
                       THEN "fresh" ELSE "none"]
               ELSE stale
  /\ UNCHANGED << files, scope, raceVars >>

\* func main, run from start to exit.  args is os.Args[1:], input is what
\* standard input delivers, wr and logOK are what the operating system does
\* with the record write and the log append.
Main(args, input, wr, logOK) ==
  IF Len(args) < 1
  THEN Done(args, << >>, "", "", NotCalled, ExitError, << >>,
            << "usage: file-checksum-guard <verify|store>" >>,
            checksums, logs, dirExists)
  ELSE
    LET action == args[1] IN
    IF input.kind = "ioerr"
    THEN Done(args, << >>, "", "", NotCalled, ExitError, << >>,
              << "failed to read stdin:" >>, checksums, logs, MkdirAll)
    ELSE IF input.kind = "badjson"
    THEN Done(args, << >>, "", "", NotCalled, ExitError, << >>,
              << "failed to parse JSON:" >>, checksums, logs, MkdirAll)
    ELSE
      LET fp == ResolvePath(input) IN
      IF fp = << >>
      THEN Done(args, fp, "", "", NotCalled, ExitOK, << >>, << >>,
                checksums, logs, MkdirAll)
      ELSE IF action = "store"
      THEN LET cmp == compareWithStored(fp)
               r == store(fp, wr)
           IN IF r.err # "nil"
              THEN Done(args, fp, cmp.status, r.err, NotCalled, ExitError, << >>,
                        << "store error:" >>, r.sums, logs, MkdirAll)
              ELSE Done(args, fp, cmp.status, r.err, NotCalled, ExitOK, << >>, << >>,
                        r.sums, logAccess(logs, fp, logOK), MkdirAll)
      ELSE IF action = "verify"
      THEN LET cmp == compareWithStored(fp)
               lg == logAccess(logs, fp, logOK)
               v == verify(fp)
           IN IF v.blocked
              THEN Done(args, fp, cmp.status, "", v, ExitBlock,
                        << [reason |-> v.reason] >>, << >>, checksums, lg, MkdirAll)
              ELSE Done(args, fp, cmp.status, "", v, ExitOK, << >>, << >>,
                        checksums, lg, MkdirAll)
      ELSE Done(args, fp, "", "", NotCalled, ExitError, << >>,
                << "unknown action: ", action >>, checksums, logs, MkdirAll)

\* the inputs of an invocation that names a path in play (or none)
InScope(input) ==
  input.kind = "json" => ResolvePath(input) \in scope \cup { << >> }

\* whether the invocation gets as far as os.WriteFile and logAccess
Writes(args, input) ==
  /\ args = << "store" >> /\ input.kind = "json" /\ ResolvePath(input) # << >>
  /\ ~fileChecksum(ResolvePath(input)).err
Logs(args, input) ==
  /\ args \in { << "store" >>, << "verify" >> }
  /\ input.kind = "json" /\ ResolvePath(input) # << >>

\* the operating system's answers are drawn for the calls the run makes
Invoke ==
  \E args \in ArgLists, input \in Stdins :
    /\ InScope(input)
    /\ \E wr \in IF Writes(args, input) THEN WriteOutcomes ELSE { "ok" },
          logOK \in IF Logs(args, input) THEN BOOLEAN ELSE { TRUE } :
         Main(args, input, wr, logOK)

\* ----------------------------------------------------------- the outside world
\* after the process has exited its result is gone
Forget ==
  /\ osArgs' = << >> /\ filePath' = << >> /\ status' = "" /\ storeErr' = ""
  /\ verifyRet' = NotCalled /\ exitCode' = NoExit
  /\ stdout' = << >> /\ stderr' = << >> /\ hist' = << >>
  /\ UNCHANGED << scope, raceVars >>

NewContent(p, c) ==
  IF stale[p] = "none" THEN stale
  ELSE [stale EXCEPT ![p] =
          IF EncodeToString(Sum256(c)) = lastStored[p] THEN "fresh" ELSE "stale"]

\* an editor changes a file's content
ModifyFile(p, c) ==
  /\ p \in scope
  /\ files[p].exists /\ files[p].content # c
  /\ files' = [files EXCEPT ![p].content = c]
  /\ stale' = NewContent(p, c)
  /\ Forget
  /\ UNCHANGED << dirExists, checksums, logs, lastStored >>

CreateFile(p, c) ==
  /\ p \in scope
  /\ ~files[p].exists
  /\ files' = [files EXCEPT ![p] = [exists |-> TRUE, readable |-> TRUE, content |-> c]]
  /\ stale' = NewContent(p, c)
  /\ Forget
  /\ UNCHANGED << dirExists, checksums, logs, lastStored >>

DeleteFile(p) ==
  /\ p \in scope
  /\ files[p].exists
  /\ files' = [files EXCEPT ![p] = Missing]
  /\ Forget
  /\ UNCHANGED << dirExists, checksums, logs, lastStored, stale >>

\* the file becomes unreadable, or readable again
Chmod(p) ==
  /\ p \in scope
  /\ files[p].exists
  /\ files' = [files EXCEPT ![p].readable = ~@]
  /\ Forget
  /\ UNCHANGED << dirExists, checksums, logs, lastStored, stale >>

\* the record of one path is removed from the checksum directory
RemoveRecord(k) ==
  /\ checksums[k].exists
  /\ checksums' = [checksums EXCEPT ![k] = NoFile]
  /\ Forget
  /\ UNCHANGED << files, dirExists, logs, lastStored, stale >>

\* the temporary directory is reset
ClearDir ==
  /\ dirExists
  /\ dirExists' = FALSE
  /\ checksums' = [k \in KeyPaths |-> NoFile]
  /\ logs' = [l \in LogPaths |-> 0]
  /\ Forget
  /\ UNCHANGED << files, lastStored, stale >>

Next ==
  \/ Invoke
  \/ \E p \in Paths, c \in FileContents : ModifyFile(p, c)
  \/ \E p \in Paths, c \in FileContents : CreateFile(p, c)
  \/ \E p \in Paths : DeleteFile(p)
  \/ \E p \in Paths : Chmod(p)
  \/ \E k \in KeyPaths : RemoveRecord(k)
  \/ ClearDir

Spec == Init /\ [][Next]_vars
\* --------------------------------------------- two invocations at the same time
\* A store invocation and a verify invocation on rpath, each past the reading
\* of its input, take one system call per step.  The file exists, is readable
\* and is not touched; its digest is on record.
InitRace ==
  /\ rpath \in Paths
  /\ scope = { rpath }
  /\ \E c \in FileContents :
       /\ files = [p \in Paths |->
                     IF p = rpath
                     THEN [exists |-> TRUE, readable |-> TRUE, content |-> c]
                     ELSE Missing]
       /\ lastStored = [p \in Paths |->
                          IF p = rpath THEN EncodeToString(Sum256(c)) ELSE NoDigest]
  /\ checksums = [k \in KeyPaths |->
                    IF k = checksumKeyPath(rpath) THEN DataFile(lastStored[rpath])
                    ELSE NoFile]
  /\ dirExists = TRUE
  /\ logs \in [LogPaths -> 0..MaxLogLines]
  /\ \A p \in Paths \ scope : logs[logAccessPath(p)] = 0
  /\ stale = [p \in Paths |-> IF p = rpath THEN "fresh" ELSE "none"]
  /\ Idle
  /\ spc = "cmpSum" /\ vpc = "cmpSum"
  /\ sloc = SLoc0 /\ vloc = VLoc0

StoreStep(at, to, loc) ==
  /\ spc = at /\ spc' = to /\ sloc' = loc
  /\ UNCHANGED << files, dirExists, procVars, scope, hist, lastStored, stale,
                   rpath, vpc, vloc >>

VerifyStep(at, to, loc) ==
  /\ vpc = at /\ vpc' = to /\ vloc' = loc
  /\ UNCHANGED << files, dirExists, procVars, scope, hist, lastStored, stale,
                   rpath, spc, sloc >>

\* main, case "store": compareWithStored reads the file ...
SCmpSum ==
  LET cur == fileChecksum(rpath) IN
  /\ StoreStep("cmpSum", IF cur.err THEN "stat" ELSE "cmpRead",
               [sloc EXCEPT !.status = IF cur.err THEN "error" ELSE "",
                            !.cur = cur.sum])
  /\ UNCHANGED << checksums, logs >>

\* ... and then the record
SCmpRead ==
  LET stored == ReadFile(checksumKeyPath(rpath)) IN
  /\ StoreStep("cmpRead", "stat",
               [sloc EXCEPT !.status = IF stored.err THEN "new"
                                       ELSE IF stored.data = sloc.cur THEN "match"
                                       ELSE "mismatch"])
  /\ UNCHANGED << checksums, logs >>

\* store: os.Stat
SStat ==
  /\ IF StatOK(rpath) THEN StoreStep("stat", "sum", sloc)
     ELSE StoreStep("stat", "log", [sloc EXCEPT !.err = "nil"])
  /\ UNCHANGED << checksums, logs >>

\* store: fileChecksum
SSum ==
  LET sum == fileChecksum(rpath) IN
  /\ IF sum.err
     THEN StoreStep("sum", "done", [sloc EXCEPT !.err = "read", !.code = ExitError])
     ELSE StoreStep("sum", "open", [sloc EXCEPT !.sum = sum.sum])
  /\ UNCHANGED << checksums, logs >>

\* store: os.WriteFile opens the record with O_TRUNC ...
SOpen ==
  /\ StoreStep("open", "write", sloc)
  /\ checksums' = [checksums EXCEPT ![checksumKeyPath(rpath)] = DataFile(<< >>)]
  /\ UNCHANGED logs

\* ... and writes the digest
SWrite ==
  /\ StoreStep("write", "log", [sloc EXCEPT !.err = "nil"])
  /\ checksums' = [checksums EXCEPT ![checksumKeyPath(rpath)] = DataFile(sloc.sum)]
  /\ UNCHANGED logs

\* main: logAccess, and the process ends
SLog ==
  /\ StoreStep("log", "done", [sloc EXCEPT !.code = ExitOK])
  /\ logs' = logAccess(logs, rpath, TRUE)
  /\ UNCHANGED checksums

\* main, case "verify": compareWithStored reads the file ...
VCmpSum ==
  LET cur == fileChecksum(rpath) IN
  /\ VerifyStep("cmpSum", IF cur.err THEN "log" ELSE "cmpRead",
                [vloc EXCEPT !.status = IF cur.err THEN "error" ELSE "",
                             !.cur = cur.sum])
  /\ UNCHANGED << checksums, logs >>

\* ... and then the record
VCmpRead ==
  LET stored == ReadFile(checksumKeyPath(rpath)) IN
  /\ VerifyStep("cmpRead", "log",
                [vloc EXCEPT !.status = IF stored.err THEN "new"
                                        ELSE IF stored.data = vloc.cur THEN "match"
                                        ELSE "mismatch"])
  /\ UNCHANGED << checksums, logs >>

\* main: logAccess
VLog ==
  /\ VerifyStep("log", "stat", vloc)
  /\ logs' = logAccess(logs, rpath, TRUE)
  /\ UNCHANGED checksums

\* verify: os.Stat
VStat ==
  /\ IF StatOK(rpath) THEN VerifyStep("stat", "read", vloc)
     ELSE VerifyStep("stat", "done", [vloc EXCEPT !.code = ExitOK])
  /\ UNCHANGED << checksums, logs >>

\* verify: os.ReadFile of the record
VRead ==
  LET stored == ReadFile(checksumKeyPath(rpath)) IN
  /\ IF stored.err THEN VerifyStep("read", "done", [vloc EXCEPT !.code = ExitOK])
     ELSE VerifyStep("read", "sum", [vloc EXCEPT !.stored = stored.data])
  /\ UNCHANGED << checksums, logs >>

\* verify: fileChecksum and the comparison; main prints and exits
VSum ==
  LET current == fileChecksum(rpath) IN
  /\ IF current.err THEN VerifyStep("sum", "done", [vloc EXCEPT !.code = ExitOK])
     ELSE IF vloc.stored # current.sum
     THEN VerifyStep("sum", "done",
                     [vloc EXCEPT !.current = current.sum, !.blocked = TRUE,
                                  !.out = << [reason |-> StaleReason(rpath)] >>,
                                  !.code = ExitBlock])
     ELSE VerifyStep("sum", "done",
                     [vloc EXCEPT !.current = current.sum, !.code = ExitOK])
  /\ UNCHANGED << checksums, logs >>

NextRace ==
  \/ SCmpSum \/ SCmpRead \/ SStat \/ SSum \/ SOpen \/ SWrite \/ SLog
  \/ VCmpSum \/ VCmpRead \/ VLog \/ VStat \/ VRead \/ VSum

SpecRace == InitRace /\ [][NextRace]_vars
\* ===================================================================== claims
KeyOf(p) == checksumKeyPath(p)
Ran == exitCode # NoExit
RanOn(mode, p) == Ran /\ osArgs = << mode >> /\ filePath = p

\* the one condition under which verify may block
Mismatch(p) ==
  /\ files[p].exists
  /\ checksums[KeyOf(p)].exists
  /\ files[p].readable
  /\ checksums[KeyOf(p)].data # Digest(p)

\* C1: verify returns blocked only if the file exists, a record exists at the
\* derived key, the file's digest could be computed and differs from the
\* record; with a missing file, no record, an unreadable file or equal
\* digests it returns not-blocked.
C1_FailOpen ==
  \A p \in Paths :
    (RanOn("verify", p) /\ verifyRet.called) =>
      /\ verifyRet.blocked <=> Mismatch(p)
      /\ exitCode = 2 <=> Mismatch(p)

C1_Witness ==
  /\ Ran /\ osArgs = << "verify" >> /\ filePath \in Paths
  /\ verifyRet.blocked /\ exitCode = 2 /\ Mismatch(filePath)

\* C4: the process exits with code 2 exactly when the mode is verify and
\* verify returned blocked, and then standard output holds exactly one JSON
\* object with a non-empty reason; every other exit is 0 or 1 with nothing on
\* standard output.
C4_ExitCode ==
  Ran =>
    /\ exitCode = 2 <=> (osArgs = << "verify" >> /\ verifyRet.called /\ verifyRet.blocked)
    /\ exitCode = 2 =>
          /\ Len(stdout) = 1
          /\ stdout[1].reason # << >>
    /\ exitCode # 2 => exitCode \in { 0, 1 } /\ stdout = << >>

C4_Witness ==
  /\ Ran /\ exitCode = 2 /\ Len(stdout) = 1 /\ osArgs = << "verify" >>

\* s occurs in t as a run of consecutive characters
Contains(t, s) ==
  \E i \in 1..(Len(t) - Len(s) + 1) : SubSeq(t, i, i + Len(s) - 1) = s

\* the reason names the file by its base name and not by its path
NamesBase(reason, p) ==
  /\ reason # << >>
  /\ Contains(reason, Base(p))
  /\ ~Contains(reason, p)

BlockedWithReason(p) ==
  /\ verifyRet.blocked
  /\ exitCode = 2
  /\ Len(stdout) = 1
  /\ stdout[1].reason = verifyRet.reason
  /\ NamesBase(verifyRet.reason, p)

\* C2 as stated: once store(path) has succeeded on a readable file and the
\* content has then changed to another digest, every verify(path) before the
\* next store(path), and before the content returns to the recorded digest,
\* returns blocked with a reason that names the file's base name.
C2_Staleness ==
  \A p \in Paths :
    (RanOn("verify", p) /\ stale[p] = "stale") => BlockedWithReason(p)

\* C2 amended: the same, for every such verify that finds the file present
\* and readable and the record still in place.
C2_StalenessWhilePresent ==
  \A p \in Paths :
    (RanOn("verify", p) /\ stale[p] = "stale"
       /\ files[p].exists /\ files[p].readable /\ checksums[KeyOf(p)].exists)
      => BlockedWithReason(p)

C2_Witness ==
  /\ Ran /\ osArgs = << "verify" >> /\ filePath \in Paths
  /\ stale[filePath] = "stale"
  /\ files[filePath].exists /\ files[filePath].readable
  /\ checksums[KeyOf(filePath)].data = lastStored[filePath]
  /\ exitCode = 2
  /\ Base(filePath) # filePath

StoreRan(p) ==
  /\ exitCode' # NoExit /\ osArgs' = << "store" >> /\ filePath' = p
  /\ storeErr' # ""

\* C5: store(path) on a missing file succeeds and leaves every record as it
\* was: none is created, altered or removed, for this path or another.
C5_MissingStoreNoOp ==
  [][\A p \in Paths :
       (~files[p].exists /\ StoreRan(p)) =>
         (storeErr' = "nil" /\ exitCode' = 0 /\ checksums' = checksums)]_vars

C5_Witness ==
  /\ Ran /\ osArgs = << "store" >> /\ filePath \in Paths
  /\ ~files[filePath].exists
  /\ storeErr = "nil" /\ exitCode = 0
  /\ \A p \in Paths : checksums[KeyOf(p)].exists

C7_ModeValidation ==
  (Ran /\ osArgs \notin { << "store" >>, << "verify" >> }) =>
    /\ exitCode = 1
    /\ stderr # << >>
    /\ storeErr = "" /\ ~verifyRet.called

\* C6: each path has at most one record, and a record that is present holds
\* the digest of the content the file had at the last successful store of
\* that path that found the file.
C6_RecordInvariant ==
  \A p \in Paths :
    checksums[KeyOf(p)].exists =>
      /\ lastStored[p] # NoDigest
      /\ checksums[KeyOf(p)].data = lastStored[p]

\* C10: with the file's digest on record and the file untouched, a verify
\* that runs concurrently with a store of the same path never denies.
C10_RaceBenign ==
  (vpc = "done" /\ files[rpath].exists /\ files[rpath].readable
     /\ lastStored[rpath] = Digest(rpath))
    => vloc.code # 2
====
